---- MODULE Spec2Model ----
(***************************************************************************)
(* A model of the ST7789 display driver of rp2040-st7789 (src/display.rs). *)
(*                                                                         *)
(* The display object is a record of the fields of `Display` plus two      *)
(* observation fields: `bus`, the hardware events (pin writes, delays, SPI *)
(* transfers) the operation in progress has produced so far, and           *)
(* `panicked`, set when the operation aborted (a Rust panic).  Every       *)
(* method of `Display` is an operator from a display record to a display   *)
(* record, composed exactly as the method composes its calls.              *)
(*                                                                         *)
(* u16 arithmetic keeps its width.  An overflowing `+`, `-` or `*` panics  *)
(* in a build with overflow checks and wraps modulo 2^16 in a build        *)
(* without them; `overflow_checks` is the build's choice.                  *)
(*                                                                         *)
(* A u32 colour is the pair of its 16-bit halves [hi, lo], since the       *)
(* checker's integers are 32-bit signed.                                   *)
(***************************************************************************)
EXTENDS Integers, Sequences, FiniteSets, TLC

VARIABLES
  bpp,              \* Display.bpp
  height,           \* Display.height
  width,            \* Display.width
  pins,             \* Display.pins: the levels of the four output lines
  text,             \* Display.text
  bus,              \* events of the operation in progress, in order
  blocks,           \* draw_solid_rect calls made by the draw_text in progress
  cursor,           \* (character, render_x, render_y) at the start of each
                    \* iteration of the draw_text in progress, and at its end
  panicked,         \* the program aborted
  spi_ok,           \* Display.spi: the number of writes the link still
                    \* completes before one returns an error
  overflow_checks,  \* the build panics on arithmetic overflow
  pc,               \* "new": in Display::new, before the bring-up calls;
                    \* "called": an operation has run and not yet returned;
                    \* "ready": between operations
  op,               \* the operation in progress and its arguments
  joystick,         \* the Joystick object of main, and the pin levels it read
  main              \* the locals of main's loop

vars == <<bpp, height, width, pins, text, bus, blocks, cursor, panicked, spi_ok,
          overflow_checks, pc, op, joystick, main>>

----------------------------------------------------------------------------
(* Fixed-width arithmetic                                                  *)

U16 == 65536

\* a + b on u16: the wrapped value and whether it overflowed
add(a, b) == [v |-> (a + b) % U16, ovf |-> a + b >= U16]

\* a - b on u16
sub(a, b) == [v |-> (a - b) % U16, ovf |-> a < b]

\* a * b on u16, computed in two partial products so that no intermediate
\* value leaves the checker's integer range
mul(a, b) ==
  [v   |-> ((((a % 256) * b) % U16) + ((((a \div 256) * b) % 256) * 256)) % U16,
   ovf |-> a # 0 /\ b > (U16 - 1) \div a]

\* (color >> n) on u32, n in 0..16, colour as [hi, lo]
RECURSIVE pow2(_)
pow2(n) == IF n = 0 THEN 1 ELSE 2 * pow2(n - 1)

shr(color, n) ==
  [hi |-> color.hi \div pow2(n),
   lo |-> ((color.lo \div pow2(n)) + ((color.hi % pow2(n)) * pow2(16 - n))) % U16]

\* (c & 0xFF) as u8
and_ff_u8(color) == color.lo % 256

\* a | b on u8
RECURSIVE bitor(_, _)
bitor(a, b) ==
  IF a = 0 /\ b = 0 THEN 0
  ELSE (IF a % 2 = 1 \/ b % 2 = 1 THEN 1 ELSE 0) + (2 * bitor(a \div 2, b \div 2))

\* a & b on u16
RECURSIVE bitand(_, _)
bitand(a, b) ==
  IF a = 0 \/ b = 0 THEN 0
  ELSE (IF a % 2 = 1 /\ b % 2 = 1 THEN 1 ELSE 0) + (2 * bitand(a \div 2, b \div 2))

----------------------------------------------------------------------------
(* DisplayCommand (the codes the driver issues)                            *)

SWRESET == 1
SLPIN   == 16
SLPOUT  == 17
NORON   == 19
INVOFF  == 32
INVON   == 33
DISPOFF == 40
DISPON  == 41
CASET   == 42
RASET   == 43
RAMWR   == 44
MADCTL  == 54
COLMOD  == 58

(* DisplayColorMode                                                        *)
DisplayColorMode_BPP12   == 3
DisplayColorMode_BPP16   == 5
DisplayColorMode_BPP18   == 6
DisplayColorMode_BPP16M  == 7
DisplayColorMode_RGB65K  == 80
DisplayColorMode_RGB262K == 96

(* DisplayColorModeBPP                                                     *)
DisplayColorModeBPP == {"BPP12", "BPP16", "BPP18", "BPP16M", "UNKNOWN"}

(* DisplayRotation as u8                                                   *)
DisplayRotation == {0, 96, 160, 192}

----------------------------------------------------------------------------
(* Hardware events                                                         *)

PinEv(pin, level) == [k |-> "pin", pin |-> pin, level |-> level]
DelayEv(ms)       == [k |-> "delay", ms |-> ms]
\* one SPI write; cs and dc are the levels of the lines while it happens
SpiEv(kind, bytes, cs, dc) ==
  [k |-> "spi", kind |-> kind, bytes |-> bytes, cs |-> cs, dc |-> dc]
\* n consecutive repetitions of the event sequence body
LoopEv(n, body)   == [k |-> "loop", n |-> n, body |-> body]
\* one SPI write that returned Err
SpiErrEv(kind, bytes) == [k |-> "spi_err", kind |-> kind, bytes |-> bytes]

\* spi_ok of a link whose write never returns an error
LINK_NEVER_FAILS == 0 - 1

\* pin.set_low() / pin.set_high()
set_pin(d, pin, level) ==
  IF d.panicked THEN d
  ELSE [d EXCEPT !.pins[pin] = level, !.bus = Append(@, PinEv(pin, level))]

\* delay.delay_ms(ms)
delay_ms(d, ms) ==
  IF d.panicked THEN d ELSE [d EXCEPT !.bus = Append(@, DelayEv(ms))]

\* the program aborts at this point (an arithmetic overflow, an unwrap of Err)
panic(d) == [d EXCEPT !.panicked = TRUE]

\* self.spi.write(bytes) with the result discarded instead of unwrapped
spi_write_error_ignored(d, kind, bytes) ==
  IF d.panicked THEN d
  ELSE IF d.spi_ok = 0
  THEN [d EXCEPT !.bus = Append(@, SpiErrEv(kind, bytes))]
  ELSE [d EXCEPT !.bus = Append(@, SpiEv(kind, bytes, d.pins.chip_select,
                                         d.pins.data_command)),
                 !.spi_ok = IF @ = LINK_NEVER_FAILS THEN @ ELSE @ - 1]

\* self.spi.write(bytes).unwrap()
spi_write(d, kind, bytes) ==
  IF d.panicked THEN d
  ELSE IF d.spi_ok = 0
  THEN panic([d EXCEPT !.bus = Append(@, SpiErrEv(kind, bytes))])
  ELSE [d EXCEPT !.bus = Append(@, SpiEv(kind, bytes, d.pins.chip_select,
                                         d.pins.data_command)),
                 !.spi_ok = IF @ = LINK_NEVER_FAILS THEN @ ELSE @ - 1]

----------------------------------------------------------------------------
(* Command/Data link                                                       *)

send_command(d, command) ==
  LET d1 == set_pin(d, "chip_select", "low")
      d2 == set_pin(d1, "data_command", "low")
      d3 == spi_write(d2, "cmd", <<command>>)
  IN  set_pin(d3, "chip_select", "high")

\* send_data that leaves chip-select asserted
send_data_cs_left_low(d, data) ==
  LET d1 == set_pin(d, "chip_select", "low")
      d2 == set_pin(d1, "data_command", "high")
  IN  spi_write(d2, "data", data)

send_data(d, data) ==
  LET d1 == set_pin(d, "chip_select", "low")
      d2 == set_pin(d1, "data_command", "high")
      d3 == spi_write(d2, "data", data)
  IN  set_pin(d3, "chip_select", "high")

----------------------------------------------------------------------------
(* Window addressing                                                       *)

\* the high byte taken without the shift
hi_byte_unshifted(v) == v % 256

\* (v >> 8) as u8, (v & 0xFF) as u8
hi_byte(v) == (v \div 256) % 256
lo_byte(v) == v % 256

\* set_columns with the bound test off by one (end > width)
set_columns_end_inclusive(d, start, end) ==
  IF d.panicked THEN d
  ELSE IF start > end \/ end > d.width THEN d
  ELSE send_data(send_command(d, CASET),
                 <<hi_byte(start), lo_byte(start), hi_byte(end), lo_byte(end)>>)

set_columns(d, start, end) ==
  IF d.panicked THEN d
  ELSE IF start > end \/ end >= d.width THEN d
  ELSE send_data(send_command(d, CASET),
                 <<hi_byte(start), lo_byte(start), hi_byte(end), lo_byte(end)>>)

set_rows(d, start, end) ==
  IF d.panicked THEN d
  ELSE IF start > end \/ end >= d.height THEN d
  ELSE send_data(send_command(d, RASET),
                 <<hi_byte(start), lo_byte(start), hi_byte(end), lo_byte(end)>>)

\* set_window that does nothing when an axis is out of bounds
set_window_all_or_nothing(d, start_x, start_y, end_x, end_y) ==
  IF start_x > end_x \/ end_x >= d.width \/ start_y > end_y \/ end_y >= d.height
  THEN d
  ELSE send_command(set_rows(set_columns(d, start_x, end_x), start_y, end_y), RAMWR)

set_window(d, start_x, start_y, end_x, end_y) ==
  send_command(set_rows(set_columns(d, start_x, end_x), start_y, end_y), RAMWR)

----------------------------------------------------------------------------
(* Colour mode                                                             *)

\* set_color_mode that issues the command without its parameter
set_color_mode_no_parameter(d, mode) == send_command(d, COLMOD)

set_color_mode(d, mode) == send_data(send_command(d, COLMOD), <<mode>>)

\* the table with the 18-bit depth bits for the 18-bit mode
color_mode_of_bpp18_depth(m) ==
  CASE m = "BPP12"  -> bitor(DisplayColorMode_RGB65K, DisplayColorMode_BPP12)
    [] m = "BPP16"  -> bitor(DisplayColorMode_RGB65K, DisplayColorMode_BPP16)
    [] m = "BPP16M" -> bitor(DisplayColorMode_RGB65K, DisplayColorMode_BPP16M)
    [] m = "BPP18"  -> bitor(DisplayColorMode_RGB262K, DisplayColorMode_BPP18)
    [] OTHER        -> bitor(DisplayColorMode_RGB65K, DisplayColorMode_BPP16)

color_mode_of(m) ==
  CASE m = "BPP12"  -> bitor(DisplayColorMode_RGB65K, DisplayColorMode_BPP12)
    [] m = "BPP16"  -> bitor(DisplayColorMode_RGB65K, DisplayColorMode_BPP16)
    [] m = "BPP16M" -> bitor(DisplayColorMode_RGB65K, DisplayColorMode_BPP16M)
    [] m = "BPP18"  -> bitor(DisplayColorMode_RGB262K, DisplayColorMode_BPP12)
    [] OTHER        -> bitor(DisplayColorMode_RGB65K, DisplayColorMode_BPP16)

set_bpp(d, m) ==
  IF d.panicked THEN d
  ELSE set_color_mode([d EXCEPT !.bpp = m], color_mode_of(m))

----------------------------------------------------------------------------
(* Rasterizer                                                              *)

\* pixel_bytes sending the low byte first
pixel_bytes_little_endian(m, color) ==
  CASE m = "BPP16" ->
         <<and_ff_u8(shr(color, 0)), and_ff_u8(shr(color, 8))>>
    [] m \in {"BPP18", "BPP16M"} ->
         <<and_ff_u8(shr(color, 0)), and_ff_u8(shr(color, 8)),
           and_ff_u8(shr(color, 16))>>
    [] OTHER -> <<>>

\* pixel_bytes whose 16-bit high byte is the red channel (bits 23-16)
pixel_bytes_red_high(m, color) ==
  CASE m = "BPP16" ->
         <<and_ff_u8(shr(color, 16)), and_ff_u8(shr(color, 0))>>
    [] m \in {"BPP18", "BPP16M"} ->
         <<and_ff_u8(shr(color, 16)), and_ff_u8(shr(color, 8)),
           and_ff_u8(shr(color, 0))>>
    [] OTHER -> <<>>

\* pixel_bytes with a two-byte pixel in 12-bit mode
pixel_bytes_12bit_two_bytes(m, color) ==
  CASE m \in {"BPP12", "BPP16"} ->
         <<and_ff_u8(shr(color, 8)), and_ff_u8(shr(color, 0))>>
    [] m \in {"BPP18", "BPP16M"} ->
         <<and_ff_u8(shr(color, 16)), and_ff_u8(shr(color, 8)),
           and_ff_u8(shr(color, 0))>>
    [] OTHER -> <<>>

\* the bytes of one pixel: buf[0..bytes_per_pixel]
pixel_bytes(m, color) ==
  CASE m = "BPP16" ->
         <<and_ff_u8(shr(color, 8)), and_ff_u8(shr(color, 0))>>
    [] m \in {"BPP18", "BPP16M"} ->
         <<and_ff_u8(shr(color, 16)), and_ff_u8(shr(color, 8)),
           and_ff_u8(shr(color, 0))>>
    [] OTHER -> <<>>

\* for _ in 0..n { self.send_data(bytes) }: n repetitions of one transaction
\* while the link completes its writes, and the iteration whose write fails
send_pixels(d, n, bytes) ==
  IF d.panicked \/ n = 0 THEN d
  ELSE LET once == send_data([d EXCEPT !.bus = <<>>, !.spi_ok = LINK_NEVER_FAILS], bytes)
       IN  IF d.spi_ok = LINK_NEVER_FAILS \/ d.spi_ok >= n
           THEN [once EXCEPT !.bus = Append(d.bus, LoopEv(n, once.bus)),
                             !.spi_ok = IF d.spi_ok = LINK_NEVER_FAILS THEN d.spi_ok
                                        ELSE d.spi_ok - n]
           ELSE IF d.spi_ok = 0 THEN send_data(d, bytes)
           ELSE send_data([once EXCEPT !.bus = Append(d.bus, LoopEv(d.spi_ok, once.bus)),
                                       !.spi_ok = 0], bytes)

\* The clamping of draw_solid_rect, in program order.  Each field is the
\* value the variable holds in a build that wraps; ovf says that a build
\* with overflow checks has panicked on the way.
clamp(d, x0, y0, w0, h0) ==
  LET cx == IF x0 >= d.width THEN sub(d.width, 1) ELSE [v |-> x0, ovf |-> FALSE]
      cy == IF y0 >= d.height THEN sub(d.height, 1) ELSE [v |-> y0, ovf |-> FALSE]
      x  == cx.v
      y  == cy.v
      sx == add(x, w0)
      cw == IF sx.v >= d.width THEN sub(d.width, x) ELSE [v |-> w0, ovf |-> FALSE]
      sy == add(y, h0)
      ch == IF sy.v >= d.height THEN sub(d.height, y) ELSE [v |-> h0, ovf |-> FALSE]
      w  == cw.v
      h  == ch.v
      ex0 == add(x, w)
      ex  == sub(ex0.v, 1)
      ey0 == add(y, h)
      ey  == sub(ey0.v, 1)
  IN  [x |-> x, y |-> y, width |-> w, height |-> h, end_x |-> ex.v, end_y |-> ey.v,
       ovf |-> \/ cx.ovf \/ cy.ovf \/ sx.ovf \/ cw.ovf \/ sy.ovf \/ ch.ovf
               \/ ex0.ovf \/ ex.ovf \/ ey0.ovf \/ ey.ovf]

\* draw_solid_rect without the test for the unset colour mode
draw_solid_rect_no_sentinel_test(d, x, y, w, h, color) ==
  IF d.panicked THEN d
  ELSE LET c  == clamp(d, x, y, w, h)
           d1 == set_window(d, c.x, c.y, c.end_x, c.end_y)
           pixels_count == mul(c.width, c.height)
       IN  IF overflow_checks /\ c.ovf THEN panic(d)
           ELSE IF overflow_checks /\ pixels_count.ovf THEN panic(d1)
           ELSE send_pixels(d1, pixels_count.v, pixel_bytes(d.bpp, color))

draw_solid_rect(d, x, y, w, h, color) ==
  IF d.panicked THEN d
  ELSE IF d.bpp = "UNKNOWN" THEN d
  ELSE LET c  == clamp(d, x, y, w, h)
           d1 == set_window(d, c.x, c.y, c.end_x, c.end_y)
           pixels_count == mul(c.width, c.height)
       IN  IF overflow_checks /\ c.ovf THEN panic(d)
           ELSE IF overflow_checks /\ pixels_count.ovf THEN panic(d1)
           ELSE send_pixels(d1, pixels_count.v, pixel_bytes(d.bpp, color))

fill(d, color) == draw_solid_rect(d, 0, 0, d.width, d.height, color)

----------------------------------------------------------------------------
(* Text renderer                                                           *)

\* The glyph table (crate::font::FONT): 8 rows per character code, one byte
\* per row, most significant bit leftmost.  Codes: '#', '0', 'A'.
FONT ==
  [c \in {35, 48, 65} |->
     CASE c = 35 -> <<255, 129, 129, 129, 129, 129, 129, 255>>
       [] c = 48 -> <<60, 102, 110, 118, 102, 102, 60, 0>>
       [] c = 65 -> <<24, 60, 102, 102, 126, 102, 102, 0>>]

\* Option<u32>: None, Some(color) and Option::unwrap
None == <<>>
Some(color) == <<color>>
unwrap(o) == o[1]

\* The text cursor is st = [d, x, y]: the display, render_x and render_y.
\* render_x = r / render_y = r, where r is the result of a u16 operation: a
\* build with overflow checks aborts when r overflowed.
set_render_x(st, r) ==
  IF st.d.panicked THEN st
  ELSE IF overflow_checks /\ r.ovf THEN [st EXCEPT !.d = panic(st.d)]
  ELSE [st EXCEPT !.x = r.v]

set_render_y(st, r) ==
  IF st.d.panicked THEN st
  ELSE IF overflow_checks /\ r.ovf THEN [st EXCEPT !.d = panic(st.d)]
  ELSE [st EXCEPT !.y = r.v]

\* self.draw_solid_rect(render_x, render_y, pixel_width, pixel_height, color)
draw_block(st, color) ==
  [st EXCEPT !.d =
     draw_solid_rect([st.d EXCEPT !.blocks =
                        Append(@, <<st.x, st.y, st.d.text.pixel_width,
                                    st.d.text.pixel_height, color>>)],
                     st.x, st.y, st.d.text.pixel_width, st.d.text.pixel_height, color)]

\* draw_cell reading the row least significant bit first
draw_cell_lsb_first(st, char_row, char_column) ==
  IF (char_row \div pow2(7 - char_column)) % 2 # 0
  THEN draw_block(st, st.d.text.foreground_color)
  ELSE IF st.d.text.background_color # None
  THEN draw_block(st, unwrap(st.d.text.background_color))
  ELSE st

\* the body of `for char_column in (0..=7).rev()` up to the cursor advance
draw_cell(st, char_row, char_column) ==
  IF (char_row \div pow2(char_column)) % 2 # 0
  THEN draw_block(st, st.d.text.foreground_color)
  ELSE IF st.d.text.background_color # None
  THEN draw_block(st, unwrap(st.d.text.background_color))
  ELSE st

\* render_x += self.text.pixel_width
advance_column(st) == set_render_x(st, add(st.x, st.d.text.pixel_width))

RECURSIVE draw_columns(_, _, _)
\* the rest of the column loop, after the iteration that left st
next_column(st, char_row, char_column) ==
  IF st.d.panicked \/ char_column = 0 THEN st
  ELSE draw_columns(st, char_row, char_column - 1)

draw_columns(st, char_row, char_column) ==
  next_column(advance_column(draw_cell(st, char_row, char_column)),
              char_row, char_column)

\* render_x -= char_width; render_y += self.text.pixel_height
end_row(st, char_width) ==
  IF st.d.panicked THEN st
  ELSE set_render_x(st, sub(st.x, char_width))

advance_row(st) == set_render_y(st, add(st.y, st.d.text.pixel_height))

RECURSIVE draw_rows(_, _, _, _)
next_row(st, char, i, char_width) ==
  IF st.d.panicked THEN st ELSE draw_rows(st, char, i + 1, char_width)

\* `for char_row in char`, from row i on
draw_rows(st, char, i, char_width) ==
  IF i > Len(char) THEN st
  ELSE next_row(advance_row(end_row(draw_columns(st, char[i], 7), char_width)),
                char, i, char_width)

\* the end of a glyph without the return to the top row
end_char_y_not_restored(st, char_height) == st

\* render_x += char_width; render_y -= char_height
end_char_x(st, char_width) == set_render_x(st, add(st.x, char_width))
end_char_y(st, char_height) == set_render_y(st, sub(st.y, char_height))

\* the newline branch advancing by one pixel row, not by one character row
newline_one_pixel_row(st, x, char_height) ==
  set_render_y([st EXCEPT !.x = x], add(st.y, st.d.text.pixel_height))

\* render_x = x; render_y += char_height
newline(st, x, char_height) ==
  set_render_y([st EXCEPT !.x = x], add(st.y, char_height))

\* the body of `for c in text.chars()`
draw_char(st, c, x, char_width, char_height) ==
  IF st.d.panicked THEN st
  ELSE IF c = 10 THEN newline(st, x, char_height)
  ELSE end_char_y(end_char_x(draw_rows(st, FONT[c], 1, char_width), char_width),
                  char_height)

\* the character code that marks the end of the loop in `cursor`
END_OF_TEXT == 0 - 1

\* the loop `for c in text.chars()` is about to handle c (or to end) with
\* the cursor at (render_x, render_y), after n rasterizer calls
at_char(st, c) ==
  [st EXCEPT !.d.cursor =
     Append(@, [c |-> c, x |-> st.x, y |-> st.y, n |-> Len(st.d.blocks)])]

RECURSIVE draw_chars(_, _, _, _, _, _)
next_char(st, chars, i, x, char_width, char_height) ==
  IF st.d.panicked THEN st
  ELSE draw_chars(st, chars, i + 1, x, char_width, char_height)

draw_chars(st, chars, i, x, char_width, char_height) ==
  IF i > Len(chars) THEN at_char(st, END_OF_TEXT)
  ELSE next_char(draw_char(at_char(st, chars[i]), chars[i], x, char_width, char_height),
                 chars, i, x, char_width, char_height)

\* draw_text once char_width and char_height are computed
draw_text_sized(d, x, y, chars, char_width, char_height) ==
  IF overflow_checks /\ (char_width.ovf \/ char_height.ovf) THEN panic(d)
  ELSE draw_chars([d |-> d, x |-> x, y |-> y], chars, 1, x,
                  char_width.v, char_height.v).d

draw_text(d, x, y, chars) ==
  IF d.panicked THEN d
  ELSE draw_text_sized(d, x, y, chars, mul(8, d.text.pixel_width),
                       mul(8, d.text.pixel_height))

(* Text style                                                              *)

set_text_background_color(d, color) == [d EXCEPT !.text.background_color = color]

set_text_foreground_color(d, color) == [d EXCEPT !.text.foreground_color = color]

set_text_pixel_height(d, pixel_height) == [d EXCEPT !.text.pixel_height = pixel_height]

set_text_pixel_width(d, pixel_width) == [d EXCEPT !.text.pixel_width = pixel_width]

----------------------------------------------------------------------------
(* Lifecycle                                                               *)

hard_reset(d) ==
  LET d1 == set_pin(d, "chip_select", "low")
      d2 == delay_ms(set_pin(d1, "reset", "high"), 50)
      d3 == delay_ms(set_pin(d2, "reset", "low"), 50)
      d4 == delay_ms(set_pin(d3, "reset", "high"), 150)
  IN  set_pin(d4, "chip_select", "high")

soft_reset(d) == delay_ms(send_command(d, SWRESET), 150)

set_sleep_mode(d, on) == send_command(d, IF on THEN SLPIN ELSE SLPOUT)

set_inversion_mode(d, on) == send_command(d, IF on THEN INVON ELSE INVOFF)

set_normal_mode(d) == send_command(d, NORON)

set_display(d, on) == send_command(d, IF on THEN DISPON ELSE DISPOFF)

set_backlight(d, on) == set_pin(d, "backlight", IF on THEN "high" ELSE "low")

set_rotation(d, rotation) == send_data(send_command(d, MADCTL), <<rotation>>)

\* the bring-up of Display::new, after the struct is built
new(d, m, rotation) ==
  LET d1  == hard_reset(d)
      d2  == soft_reset(d1)
      d3  == set_sleep_mode(d2, FALSE)
      d4  == set_bpp(d3, m)
      d5  == set_rotation(d4, rotation)
      d6  == set_inversion_mode(d5, TRUE)
      d7  == set_normal_mode(d6)
      d8  == fill(d7, [hi |-> 0, lo |-> 0])
      d9  == set_backlight(d8, TRUE)
  IN  set_display(d9, TRUE)

----------------------------------------------------------------------------
(* Joystick (src/joystick.rs)                                              *)

\* JoystickButton as u16
JoystickButton ==
  [A |-> 1, B |-> 2, X |-> 4, Y |-> 8, UP |-> 16, DOWN |-> 32, LEFT |-> 64,
   RIGHT |-> 128, CTRL |-> 256]

\* the buttons in the order update reads their pins
buttons == <<"A", "B", "X", "Y", "UP", "DOWN", "LEFT", "RIGHT", "CTRL">>

\* Joystick::new.  `low` and `low_before` are the sets of pins that read low
\* at the last update and at the one before it (none before any update).
Joystick_new ==
  [states |-> [current |-> 0, old |-> 0], low |-> {}, low_before |-> {}]

\* if self.buttons.<b>.is_low() { current_state |= JoystickButton::<b> },
\* from the i-th button on
RECURSIVE read_buttons(_, _, _)
read_buttons(low, i, current_state) ==
  IF i > Len(buttons) THEN current_state
  ELSE read_buttons(low, i + 1,
                    IF buttons[i] \in low
                    THEN bitor(current_state, JoystickButton[buttons[i]])
                    ELSE current_state)

\* update that keeps the old state it had
update_old_kept(j, low) ==
  [states |-> [old |-> j.states.old, current |-> read_buttons(low, 1, 0)],
   low |-> low, low_before |-> j.low]

\* Joystick::update, the pins in `low` reading low
update(j, low) ==
  [states |-> [old |-> j.states.current, current |-> read_buttons(low, 1, 0)],
   low |-> low, low_before |-> j.low]

is_active(j, button_u16) == bitand(j.states.current, button_u16) = button_u16

just_pressed(j, button_u16) ==
  bitand(j.states.old, button_u16) = 0 /\ bitand(j.states.current, button_u16) = button_u16

just_released(j, button_u16) ==
  bitand(j.states.old, button_u16) = button_u16 /\ bitand(j.states.current, button_u16) = 0

is_hold(j, button_u16) ==
  /\ bitand(j.states.old, button_u16) = button_u16
  /\ bitand(j.states.current, button_u16) = button_u16

\* is_any_active(Some(buttons_value))
is_any_active(j, buttons_value) == bitand(j.states.current, buttons_value) # 0

----------------------------------------------------------------------------
(* The inputs the operations are called with                               *)

\* width x height of the surface: the controller's native 240x320, the
\* demo's 240x240 panel, and a degenerate surface
Surfaces == <<(<<240, 320>>), (<<240, 240>>), (<<0, 1>>)>>

Color(hi, lo) == [hi |-> hi, lo |-> lo]
\* 0x00000000, 0x00123456, 0xAB123456, 0xFFFFFFFF
Colors == {Color(0, 0), Color(18, 13398), Color(43794, 13398), Color(65535, 65535)}

RectXs == {0, 5, 239, 240, 65535}
RectYs == {0, 319, 400}
RectWs == {0, 1, 235, 65535}
RectHs == {0, 2, 400}

RangeStarts == {0, 10, 300}
RangeEnds   == {0, 9, 239, 240, 319, 320}
\* "A", "A\n0", "#"
Texts == {<<65>>, <<65, 10, 48>>, <<35>>}
TextXs == {5, 236}
TextYs == {5}

WindowStarts == {0, 10}
WindowEnds   == {9, 239, 320}

\* the pixel-scale multipliers and colours the text setters are called with
PixelScales == {0, 1, 2}
TextBackgrounds == {None, Some([hi |-> 0, lo |-> 31])}
TextForegrounds == {Color(65535, 65535), Color(0, 63488)}
\* "A0\n\n#A"
LongTexts == {<<65, 48, 10, 10, 35, 65>>}

----------------------------------------------------------------------------
(* The state machine                                                       *)

\* the display object as the methods see it, at the start of an operation
Self ==
  [bpp |-> bpp, height |-> height, width |-> width, pins |-> pins,
   text |-> text, bus |-> <<>>, blocks |-> <<>>, cursor |-> <<>>, panicked |-> FALSE,
   spi_ok |-> spi_ok]

\* the display object after the operation, stored back
Store(name, args, r) ==
  /\ bpp' = r.bpp
  /\ height' = r.height
  /\ width' = r.width
  /\ pins' = r.pins
  /\ text' = r.text
  /\ bus' = r.bus
  /\ blocks' = r.blocks
  /\ cursor' = r.cursor
  /\ panicked' = r.panicked
  /\ spi_ok' = r.spi_ok
  /\ op' = [name |-> name, args |-> args]
  /\ pc' = "called"
  /\ UNCHANGED overflow_checks

\* a call of a Display method from outside main's loop
Commit(name, args, r) == Store(name, args, r) /\ UNCHANGED <<joystick, main>>

Ready == pc = "ready" /\ ~panicked

\* main has not reached Joystick::new and its loop
NotYet == <<>>

\* The struct literal of Display::new: the state before the bring-up calls.
\* The output lines are low until driven (the reset value of the GPIO
\* output register).
StructFields ==
  /\ overflow_checks \in BOOLEAN
  /\ bpp = "UNKNOWN"
  /\ pins = [backlight |-> "low", chip_select |-> "low",
             data_command |-> "low", reset |-> "low"]
  /\ text = [background_color |-> None, foreground_color |-> Color(65535, 65535),
             pixel_height |-> 1, pixel_width |-> 1]
  /\ bus = <<>>
  /\ blocks = <<>>
  /\ cursor = <<>>
  /\ panicked = FALSE
  /\ pc = "new"
  /\ op = [name |-> "struct", args |-> <<>>]
  /\ joystick = NotYet
  /\ main = NotYet

Struct ==
  /\ \E i \in DOMAIN Surfaces : width = Surfaces[i][1] /\ height = Surfaces[i][2]
  /\ StructFields

\* The write of the rp2040 SPI peripheral has Error = Infallible.
Init == Struct /\ spi_ok = LINK_NEVER_FAILS

New ==
  /\ pc = "new" /\ ~panicked
  /\ \E m \in DisplayColorModeBPP, rotation \in DisplayRotation :
       Commit("new", <<m, rotation>>, new(Self, m, rotation))

SetBpp ==
  /\ Ready
  /\ \E m \in DisplayColorModeBPP : Commit("set_bpp", <<m>>, set_bpp(Self, m))

SetRotation ==
  /\ Ready
  /\ \E rotation \in DisplayRotation :
       Commit("set_rotation", <<rotation>>, set_rotation(Self, rotation))

SetColumns ==
  /\ Ready
  /\ \E start \in RangeStarts, end \in RangeEnds :
       Commit("set_columns", <<start, end>>, set_columns(Self, start, end))

SetRows ==
  /\ Ready
  /\ \E start \in RangeStarts, end \in RangeEnds :
       Commit("set_rows", <<start, end>>, set_rows(Self, start, end))

SetWindow ==
  /\ Ready
  /\ \E x0 \in WindowStarts, y0 \in WindowStarts, x1 \in WindowEnds, y1 \in WindowEnds :
       Commit("set_window", <<x0, y0, x1, y1>>, set_window(Self, x0, y0, x1, y1))

DrawSolidRect ==
  /\ Ready
  /\ \E x \in RectXs, y \in RectYs, w \in RectWs, h \in RectHs, color \in Colors :
       Commit("draw_solid_rect", <<x, y, w, h, color>>,
              draw_solid_rect(Self, x, y, w, h, color))

Fill ==
  /\ Ready
  /\ \E color \in Colors : Commit("fill", <<color>>, fill(Self, color))

DrawText ==
  /\ Ready
  /\ \E x \in TextXs, y \in TextYs, chars \in Texts :
       Commit("draw_text", <<x, y, chars>>, draw_text(Self, x, y, chars))

HardReset ==
  /\ Ready
  /\ Commit("hard_reset", <<>>, hard_reset(Self))

SoftReset ==
  /\ Ready
  /\ Commit("soft_reset", <<>>, soft_reset(Self))

SetSleepMode ==
  /\ Ready
  /\ \E on \in BOOLEAN : Commit("set_sleep_mode", <<on>>, set_sleep_mode(Self, on))

SetInversionMode ==
  /\ Ready
  /\ \E on \in BOOLEAN :
       Commit("set_inversion_mode", <<on>>, set_inversion_mode(Self, on))

SetNormalMode ==
  /\ Ready
  /\ Commit("set_normal_mode", <<>>, set_normal_mode(Self))

SetDisplay ==
  /\ Ready
  /\ \E on \in BOOLEAN : Commit("set_display", <<on>>, set_display(Self, on))

SetBacklight ==
  /\ Ready
  /\ \E on \in BOOLEAN : Commit("set_backlight", <<on>>, set_backlight(Self, on))

\* The operation returns to its caller; what it did on the bus is history.
Return ==
  /\ pc = "called" /\ ~panicked
  /\ pc' = "ready"
  /\ bus' = <<>>
  /\ blocks' = <<>>
  /\ cursor' = <<>>
  /\ op' = [name |-> "none", args |-> <<>>]
  /\ UNCHANGED <<bpp, height, width, pins, text, panicked, spi_ok, overflow_checks,
                 joystick, main>>

Next ==
  \/ Return
  \/ New
  \/ SetBpp
  \/ SetRotation
  \/ SetColumns
  \/ SetRows
  \/ SetWindow
  \/ DrawSolidRect
  \/ Fill
  \/ DrawText
  \/ HardReset
  \/ SoftReset
  \/ SetSleepMode
  \/ SetInversionMode
  \/ SetNormalMode
  \/ SetDisplay
  \/ SetBacklight

Spec == Init /\ [][Next]_vars

----------------------------------------------------------------------------
(* The text renderer on the demo's display                                 *)

\* Display::new(240, 240, ..) as main.rs builds it, in either build
InitText == Init /\ width = 240 /\ height = 240

SetTextBackgroundColor ==
  /\ Ready
  /\ \E color \in TextBackgrounds :
       Commit("set_text_background_color", <<color>>,
              set_text_background_color(Self, color))

SetTextForegroundColor ==
  /\ Ready
  /\ \E color \in TextForegrounds :
       Commit("set_text_foreground_color", <<color>>,
              set_text_foreground_color(Self, color))

SetTextPixelHeight ==
  /\ Ready
  /\ \E pixel_height \in PixelScales :
       Commit("set_text_pixel_height", <<pixel_height>>,
              set_text_pixel_height(Self, pixel_height))

SetTextPixelWidth ==
  /\ Ready
  /\ \E pixel_width \in PixelScales :
       Commit("set_text_pixel_width", <<pixel_width>>,
              set_text_pixel_width(Self, pixel_width))

DrawLongText ==
  /\ Ready
  /\ \E x \in TextXs, y \in TextYs, chars \in Texts \cup LongTexts :
       Commit("draw_text", <<x, y, chars>>, draw_text(Self, x, y, chars))

NextText ==
  \/ Return
  \/ New
  \/ SetTextBackgroundColor
  \/ SetTextForegroundColor
  \/ SetTextPixelHeight
  \/ SetTextPixelWidth
  \/ DrawLongText

SpecText == InitText /\ [][NextText]_vars

----------------------------------------------------------------------------
(* The driver on a link whose write can return an error                   *)

\* how many writes complete before the failing one: the failure comes in
\* the bring-up commands, in the window or the pixel loop of the bring-up
\* fill or, when the mode is the sentinel and the bring-up makes 9 writes,
\* in a later operation
LinkFaults == {0, 4, 9, 12, 20, 30}

InitFault == Struct /\ width = 240 /\ height = 240 /\ spi_ok \in LinkFaults

NextFault ==
  \/ Return
  \/ New
  \/ SetBpp
  \/ SetRotation
  \/ SetColumns
  \/ SetWindow
  \/ DrawSolidRect
  \/ Fill
  \/ SetDisplay

SpecFault == InitFault /\ [][NextFault]_vars

----------------------------------------------------------------------------
(* The joystick under arbitrary pin levels                                 *)

\* the pin levels of one update: no pin, one pin, two pins or all pins low
PinLevels ==
  {{}} \cup {{a, b} : a, b \in DOMAIN JoystickButton} \cup {DOMAIN JoystickButton}

InitJoystick ==
  /\ Struct
  /\ spi_ok = LINK_NEVER_FAILS
  /\ width = 240 /\ height = 240 /\ overflow_checks = FALSE

\* let mut joystick = Joystick::new(..)
JoystickNew ==
  /\ joystick = NotYet
  /\ joystick' = Joystick_new
  /\ UNCHANGED <<bpp, height, width, pins, text, bus, blocks, cursor, panicked, spi_ok,
                 overflow_checks, pc, op, main>>

\* joystick.update()
Update ==
  /\ joystick # NotYet
  /\ \E low \in PinLevels : joystick' = update(joystick, low)
  /\ UNCHANGED <<bpp, height, width, pins, text, bus, blocks, cursor, panicked, spi_ok,
                 overflow_checks, pc, op, main>>

NextJoystick == JoystickNew \/ Update

SpecJoystick == InitJoystick /\ [][NextJoystick]_vars

----------------------------------------------------------------------------
(* The demo loop (src/main.rs)                                             *)

\* the side of the square panel main constructs (240 in main.rs)
PANEL == 4

\* ctrl_hold_counter_threshold (4_000_000 in main.rs)
ctrl_hold_counter_threshold == 2

\* the hold counter is followed up to this value
MaxHoldCounter == ctrl_hold_counter_threshold + 1

hidden_photo_index == 4

\* photos::PHOTOS.len()
PhotoTableLengths == {5, 6}

\* the bytes of photos::PHOTOS[i], standing for the image by its index
PHOTOS(i) == <<i>>

\* background_color, foreground_color and the rectangle's colour
background_color == [hi |-> 0, lo |-> 12710]
foreground_color == [hi |-> 0, lo |-> 1408]
rect_color == [hi |-> 0, lo |-> 63488]

\* main up to its loop: the display constructed and set up
display_of_main(d) ==
  LET d1 == fill(new(d, "BPP16", 0), background_color)
      d2 == set_text_pixel_width(
              set_text_pixel_height(
                set_text_background_color(
                  set_text_foreground_color(d1, foreground_color),
                  Some(background_color)), 2), 2)
      d3 == send_data(set_window(d2, 0, 0, PANEL - 1, PANEL - 1), PHOTOS(0))
  IN  draw_text(d3, 5, 5, <<48>>)

\* n as i8
as_i8(n) == IF n % 256 >= 128 THEN (n % 256) - 256 ELSE n % 256

\* a % b on i8, b # 0: the remainder has the sign of a
rem_i8(a, b) ==
  IF a >= 0 THEN a % (IF b < 0 THEN 0 - b ELSE b)
  ELSE 0 - ((0 - a) % (IF b < 0 THEN 0 - b ELSE b))

\* The loop's state while one iteration runs: m = main's locals, j = the
\* joystick, d = the display, calls = the Display methods called so far,
\* rect_from = the length of the bus when draw_solid_rect was called.
loop_call(it, name, args, d) ==
  [it EXCEPT !.d = d, !.calls = Append(@, [name |-> name, args |-> args])]

\* if time_diff >= 1000000 { display.draw_text(5, 5, fps_str) }: the text
\* depends on the timer and changes no field of the display
on_tick(it, tick) ==
  IF tick THEN loop_call(it, "draw_text", <<5, 5>>, it.d) ELSE it

\* if joystick.is_active(A) { if w > 0 { w -= 1 } }
on_a(it) ==
  IF is_active(it.j, JoystickButton.A) /\ it.m.w > 0
  THEN [it EXCEPT !.m.w = sub(@, 1).v] ELSE it

\* if joystick.is_active(B) { if w + x < display.width() - 1 { w += 1 } }
on_b(it) ==
  IF is_active(it.j, JoystickButton.B)
     /\ add(it.m.w, it.m.x).v < sub(it.d.width, 1).v
  THEN [it EXCEPT !.m.w = add(@, 1).v] ELSE it

on_x(it) ==
  IF is_active(it.j, JoystickButton.X) /\ it.m.h > 0
  THEN [it EXCEPT !.m.h = sub(@, 1).v] ELSE it

on_y(it) ==
  IF is_active(it.j, JoystickButton.Y)
     /\ add(it.m.h, it.m.y).v < sub(it.d.height, 1).v
  THEN [it EXCEPT !.m.h = add(@, 1).v] ELSE it

on_up(it) ==
  IF is_active(it.j, JoystickButton.UP) /\ it.m.y > 0
  THEN [it EXCEPT !.m.y = sub(@, 1).v] ELSE it

on_down(it) ==
  IF is_active(it.j, JoystickButton.DOWN)
     /\ add(it.m.y, it.m.h).v < sub(it.d.height, 1).v
  THEN [it EXCEPT !.m.y = add(@, 1).v] ELSE it

on_left(it) ==
  IF is_active(it.j, JoystickButton.LEFT) /\ it.m.x > 0
  THEN [it EXCEPT !.m.x = sub(@, 1).v] ELSE it

on_right(it) ==
  IF is_active(it.j, JoystickButton.RIGHT)
     /\ add(it.m.x, it.m.w).v < sub(it.d.width, 1).v
  THEN [it EXCEPT !.m.x = add(@, 1).v] ELSE it

\* if joystick.is_active(CTRL) { display.draw_text(5, 5, time_str) }
on_ctrl_active(it) ==
  IF is_active(it.j, JoystickButton.CTRL)
  THEN loop_call(it, "draw_text", <<5, 5>>, it.d) ELSE it

\* display.set_window(0, 0, 239, 239); display.send_data(&PHOTOS[i])
send_photo(it, i) ==
  loop_call(it, "send_photo", <<i>>,
            send_data(set_window(it.d, 0, 0, PANEL - 1, PANEL - 1), PHOTOS(i)))

\* photo += 1; photo %= photos::PHOTOS.len() as i8
next_photo(photo, len) == rem_i8(as_i8(photo + 1), as_i8(len))

\* the press branch without the skip of the hidden photo
on_press_to_no_skip(it, p) == send_photo([it EXCEPT !.m.photo = p], p)

\* the branch of just_pressed(CTRL), the new index being p
on_press_to(it, p) ==
  send_photo([it EXCEPT !.m.photo =
                IF p = hidden_photo_index THEN next_photo(p, it.m.photos_len) ELSE p],
             IF p = hidden_photo_index THEN next_photo(p, it.m.photos_len) ELSE p)

on_press(it) == on_press_to(it, next_photo(it.m.photo, it.m.photos_len))

\* the branch of is_hold(CTRL), the counter already incremented
on_hold_counted(it) ==
  IF it.m.ctrl_hold_counter > ctrl_hold_counter_threshold
  THEN send_photo(it, hidden_photo_index) ELSE it

on_hold(it) == on_hold_counted([it EXCEPT !.m.ctrl_hold_counter = @ + 1])

\* the branch of just_released(CTRL)
on_release(it) ==
  send_photo([it EXCEPT !.m.ctrl_hold_counter = 0], it.m.photo)

\* display.fill(0); display.draw_solid_rect(x, y, w, h, 0b1111100000000000)
draw_rect_after_fill(it) ==
  loop_call([it EXCEPT !.rect_from = Len(it.d.bus)], "draw_solid_rect",
            <<it.m.x, it.m.y, it.m.w, it.m.h>>,
            draw_solid_rect(it.d, it.m.x, it.m.y, it.m.w, it.m.h, rect_color))

on_any_active(it) ==
  draw_rect_after_fill(loop_call(it, "fill", <<0>>, fill(it.d, Color(0, 0))))

\* the if / else if chain of lines 213-242
on_ctrl(it) ==
  IF just_pressed(it.j, JoystickButton.CTRL) THEN on_press(it)
  ELSE IF is_hold(it.j, JoystickButton.CTRL) THEN on_hold(it)
  ELSE IF just_released(it.j, JoystickButton.CTRL) THEN on_release(it)
  ELSE IF is_any_active(it.j, 255) THEN on_any_active(it)
  ELSE it

\* one iteration of main's loop
loop(it, tick) ==
  on_ctrl(on_ctrl_active(on_right(on_left(on_down(on_up(on_y(on_x(on_b(on_a(
    on_tick(it, tick)))))))))))

\* the pin levels one iteration reads
LoopPinLevels ==
  {{}, {"A", "X"}, {"B"}, {"B", "Y"}, {"UP", "LEFT"}, {"DOWN", "RIGHT"}, {"CTRL"}}

\* main enters with the struct literal of its PANEL x PANEL display
InitDemo == StructFields /\ spi_ok = LINK_NEVER_FAILS /\ width = PANEL /\ height = PANEL

\* main from Display::new to the head of its loop
Main ==
  /\ pc = "new"
  /\ joystick' = Joystick_new
  /\ \E len \in PhotoTableLengths :
       main' = [x |-> 0, y |-> 0, w |-> 0, h |-> 0, photo |-> 0 - 1,
                ctrl_hold_counter |-> 0, photos_len |-> len]
  /\ Store("main", <<>>, display_of_main(Self))

\* the iteration that has read the pins in `low`, run to its end
LoopResult(low, tick) ==
  loop([m |-> main, j |-> update(joystick, low), d |-> Self, calls |-> <<>>,
        rect_from |-> 0], tick)

\* the iteration's effects on main's locals, the joystick and the display
LoopStore(it) ==
  /\ it.m.ctrl_hold_counter <= MaxHoldCounter
  /\ main' = it.m
  /\ joystick' = it.j
  /\ Store("loop", <<it.calls, it.rect_from>>, it.d)

Loop ==
  /\ Ready
  /\ \E low \in LoopPinLevels, tick \in BOOLEAN : LoopStore(LoopResult(low, tick))

\* the iteration is over: delay.delay_us(..) and back to the head of the loop
EndOfIteration ==
  /\ pc = "called" /\ op.name \in {"main", "loop"}
  /\ Return

NextDemo == Main \/ Loop \/ EndOfIteration

SpecDemo == InitDemo /\ [][NextDemo]_vars

----------------------------------------------------------------------------
(* Reading the bus                                                         *)

\* A well-formed command transaction and a well-formed data transaction,
\* as the controller's protocol defines them.
CmdTxn(code) ==
  <<PinEv("chip_select", "low"), PinEv("data_command", "low"),
    SpiEv("cmd", <<code>>, "low", "low"), PinEv("chip_select", "high")>>

DataTxn(bytes) ==
  <<PinEv("chip_select", "low"), PinEv("data_command", "high"),
    SpiEv("data", bytes, "low", "high"), PinEv("chip_select", "high")>>

\* big-endian 16-bit
BE16(v) == <<v \div 256, v % 256>>

\* the event sequences of a bus history: the history and its loop bodies
Streams(b) == {b} \cup {b[i].body : i \in {j \in DOMAIN b : b[j].k = "loop"}}

IsCmd(e, code) == e.k = "spi" /\ e.kind = "cmd" /\ e.bytes = <<code>>
IsData(e)      == e.k = "spi" /\ e.kind = "data"

\* the (start, end) pairs programmed by command code (CASET or RASET) in b
Programmed(b, code) ==
  {<<(b[i + 4].bytes[1] * 256) + b[i + 4].bytes[2],
     (b[i + 4].bytes[3] * 256) + b[i + 4].bytes[4]>> :
     i \in {j \in DOMAIN b : /\ IsCmd(b[j], code)
                             /\ j + 4 <= Len(b)
                             /\ IsData(b[j + 4])
                             /\ Len(b[j + 4].bytes) = 4}}

\* the pixel loops of b
Loops(b) == {b[i] : i \in {j \in DOMAIN b : b[j].k = "loop"}}

Called(name) == pc = "called" /\ op.name = name

----------------------------------------------------------------------------
(* Claims                                                                  *)

\* C1 (as claimed): every draw_solid_rect(x, y, w, h, color) with a
\* non-sentinel mode, x < width and y < height programs a column range and a
\* row range that set_columns and set_rows accept: 0 <= x0 <= x1 < width and
\* 0 <= y0 <= y1 < height.
\* (In the model the programmed ranges are read back from the CASET and
\* RASET parameters on the bus.)
C1_RectWindowAccepted ==
  (/\ Called("draw_solid_rect")
   /\ bpp # "UNKNOWN"
   /\ op.args[1] < width
   /\ op.args[2] < height)
  => /\ ~panicked
     /\ \E c \in Programmed(bus, CASET) : op.args[1] = c[1] /\ c[1] <= c[2] /\ c[2] < width
     /\ \E r \in Programmed(bus, RASET) : op.args[2] = r[1] /\ r[1] <= r[2] /\ r[2] < height

\* C2: set_columns(start, end) with start > end or end >= width, and
\* set_rows(start, end) with start > end or end >= height, put nothing on
\* the bus and leave every field of the display unchanged.
C2_RejectedRangeNoEffect ==
  [][(/\ pc' = "called"
      /\ \/ op'.name = "set_columns" /\ (op'.args[1] > op'.args[2] \/ op'.args[2] >= width)
         \/ op'.name = "set_rows" /\ (op'.args[1] > op'.args[2] \/ op'.args[2] >= height))
     => (/\ bus' = <<>>
         /\ ~panicked'
         /\ bpp' = bpp /\ width' = width /\ height' = height
         /\ text' = text /\ pins' = pins)]_vars

C2_Witness ==
  /\ Called("set_columns") /\ op.args[1] <= op.args[2] /\ op.args[2] = width
  /\ bus = <<>>

\* the whole-surface window, armed, then one data transaction per pixel
\* carrying bytes
FillEvents(bytes) ==
  CmdTxn(CASET) \o DataTxn(BE16(0) \o BE16(width - 1))
  \o CmdTxn(RASET) \o DataTxn(BE16(0) \o BE16(height - 1))
  \o CmdTxn(RAMWR)
  \o <<LoopEv(width * height, DataTxn(bytes))>>

\* the low 16 (low 24) bits of a colour, most significant byte first
Low16BE(color) == <<color.lo \div 256, color.lo % 256>>
Low24BE(color) == <<color.hi % 256, color.lo \div 256, color.lo % 256>>

Packed(m, color) ==
  CASE m = "BPP16" -> Low16BE(color)
    [] m \in {"BPP18", "BPP16M"} -> Low24BE(color)
    [] OTHER -> <<>>

\* C3 (as claimed): fill(color) with a non-sentinel mode emits exactly
\* CASET (0, width-1), RASET (0, height-1), RAMWR and then width*height data
\* writes of the packed colour, and nothing else.
C3_FillSequence ==
  (Called("fill") /\ bpp # "UNKNOWN")
  => (~panicked /\ bus = FillEvents(Packed(bpp, op.args[1])))

\* the events of the hard reset pulse
HardResetEvents ==
  <<PinEv("chip_select", "low"),
    PinEv("reset", "high"), DelayEv(50),
    PinEv("reset", "low"), DelayEv(50),
    PinEv("reset", "high"), DelayEv(150),
    PinEv("chip_select", "high")>>

\* C4 (as claimed): Display::new performs, in this order, each once and
\* with nothing in between: hard reset, SWRESET, SLPOUT, COLMOD + parameter,
\* MADCTL + parameter, INVON, NORON, the fill of the whole surface with
\* colour 0, backlight on, DISPON.  (Stated for a non-sentinel mode and a
\* surface of at least 1 x 1, where the fill is visible on the bus.)
C4_BringUpOrder ==
  (pc = "called" /\ op.name = "new" /\ op.args[1] # "UNKNOWN" /\ width >= 1 /\ height >= 1)
  => \E mode \in 0..255 :
       bus = HardResetEvents
             \o CmdTxn(SWRESET) \o <<DelayEv(150)>>
             \o CmdTxn(SLPOUT)
             \o CmdTxn(COLMOD) \o DataTxn(<<mode>>)
             \o CmdTxn(MADCTL) \o DataTxn(<<op.args[2]>>)
             \o CmdTxn(INVON)
             \o CmdTxn(NORON)
             \o FillEvents(Packed(op.args[1], Color(0, 0)))
             \o <<PinEv("backlight", "high")>>
             \o CmdTxn(DISPON)

\* every SPI transfer of stream b happens with chip-select low and the
\* selector at the level of its kind, between a chip-select assertion and
\* a chip-select release, and a command transfer carries one byte
Bracketed(b) ==
  \A i \in DOMAIN b :
    b[i].k = "spi" =>
      /\ b[i].cs = "low"
      /\ b[i].dc = (IF b[i].kind = "cmd" THEN "low" ELSE "high")
      /\ b[i].kind = "cmd" => Len(b[i].bytes) = 1
      /\ i >= 3 /\ i + 1 <= Len(b)
      /\ b[i - 2] = PinEv("chip_select", "low")
      /\ b[i - 1] = PinEv("data_command", b[i].dc)
      /\ b[i + 1] = PinEv("chip_select", "high")

\* C5: every bus transfer is bracketed by chip-select with the selector at
\* the level of its kind (low for a command of exactly one byte, high for
\* data), and after every completed operation chip-select is high.
C5_TransfersBracketed ==
  /\ \A b \in Streams(bus) : Bracketed(b)
  /\ (pc # "new" /\ ~panicked) => pins.chip_select = "high"

C5_Witness ==
  /\ Called("draw_solid_rect")
  /\ pins.chip_select = "high"
  /\ \E l \in Loops(bus) : l.n > 1 /\ \E i \in DOMAIN l.body : IsData(l.body[i])
  /\ \E i \in DOMAIN bus : IsCmd(bus[i], RAMWR)

b_is_transfer(e) == e.k \in {"spi", "loop"}

\* the number of parameter bytes of a parameterised command
ParameterBytes(code) ==
  CASE code = COLMOD -> 1
    [] code = MADCTL -> 1
    [] code = CASET  -> 4
    [] code = RASET  -> 4

\* C6: on the bus, every parameterised command (COLMOD, MADCTL, CASET,
\* RASET) is followed, before any other transfer and within the same
\* operation, by exactly one data transaction carrying its 1, 1, 4 or 4
\* parameter bytes; the transaction right after that, if any, is a command,
\* and the first transfer of every operation is a command, so the same
\* holds of the concatenated history of any sequence of operations.
C6_ParametersFollowCommand ==
  /\ \A j \in DOMAIN bus :
       (b_is_transfer(bus[j]) /\ ~(bus[j].k = "spi" /\ bus[j].kind = "cmd"))
       => \E l \in 1..(j - 1) : bus[l].k = "spi" /\ bus[l].kind = "cmd"
  /\ \A b \in Streams(bus) :
    \A i \in DOMAIN b :
      \A code \in {COLMOD, MADCTL, CASET, RASET} :
        IsCmd(b[i], code) =>
          /\ i + 5 <= Len(b)
          /\ SubSeq(b, i + 1, i + 3) =
               <<PinEv("chip_select", "high"), PinEv("chip_select", "low"),
                 PinEv("data_command", "high")>>
          /\ IsData(b[i + 4])
          /\ Len(b[i + 4].bytes) = ParameterBytes(code)
          /\ b[i + 5] = PinEv("chip_select", "high")
          /\ \A j \in (i + 6)..(i + 8) :
               (j <= Len(b) /\ b_is_transfer(b[j])) => (b[j].k = "spi" /\ b[j].kind = "cmd")

C6_Witness ==
  /\ Called("set_window")
  /\ \E i \in DOMAIN bus : IsCmd(bus[i], CASET)
  /\ \E i \in DOMAIN bus : IsCmd(bus[i], RASET)

\* C7: while the colour mode is the unset sentinel, draw_solid_rect, fill
\* and draw_text (every block it requests) put nothing on the bus and
\* change no field of the display, and draw_solid_rect and fill do not abort.
C7_SentinelDropsDraws ==
  [][(pc' = "called" /\ op'.name \in {"draw_solid_rect", "fill", "draw_text"}
      /\ bpp = "UNKNOWN")
     => (/\ bus' = <<>>
         /\ op'.name # "draw_text" => ~panicked'
         /\ bpp' = bpp /\ width' = width /\ height' = height
         /\ text' = text /\ pins' = pins)]_vars

\* a draw_text that requested blocks while the mode was the sentinel
C7_WitnessText ==
  /\ Called("draw_text") /\ bpp = "UNKNOWN" /\ bus = <<>> /\ Len(blocks) > 1


\* C8 (as claimed): after set_bpp(m) the stored mode is m and is not the
\* sentinel, for every m of DisplayColorModeBPP; once set_bpp has been
\* called, as the constructor does, the mode is never the sentinel.
C8_SentinelUnreachable ==
  /\ Called("set_bpp") => (bpp = op.args[1] /\ bpp # "UNKNOWN")
  /\ pc # "new" => bpp # "UNKNOWN"

\* C9: every pixel write of draw_solid_rect carries the truncated colour,
\* most significant byte first: two bytes whose value is color mod 2^16 in
\* 16-bit mode, three bytes whose value is color mod 2^24 in 18-bit and
\* 16-bit-truncated modes.
C9_PixelBytesTruncate ==
  (pc = "called" /\ op.name = "draw_solid_rect" /\ bpp \in {"BPP16", "BPP18", "BPP16M"})
  => \A l \in Loops(bus) :
       /\ Len(l.body) = 4
       /\ LET bytes == l.body[3].bytes
          IN  /\ l.body = DataTxn(bytes)
              /\ \A i \in DOMAIN bytes : bytes[i] \in 0..255
              /\ bpp = "BPP16" =>
                   /\ Len(bytes) = 2
                   /\ (bytes[1] * 256) + bytes[2] = op.args[5].lo
              /\ bpp \in {"BPP18", "BPP16M"} =>
                   /\ Len(bytes) = 3
                   /\ (bytes[1] * 65536) + (bytes[2] * 256) + bytes[3]
                        = ((op.args[5].hi % 256) * 65536) + op.args[5].lo

C9_Witness ==
  /\ Called("draw_solid_rect") /\ bpp = "BPP18"
  /\ op.args[5] = Color(43794, 13398)
  /\ \E l \in Loops(bus) : l.n > 1

\* C10 (as claimed): in 16-bit mode, for every colour 0xRRGGBB, every pixel
\* write of draw_solid_rect is the two bytes (0x00, color & 0xFF).
C10_HighByteZero ==
  (/\ Called("draw_solid_rect") /\ bpp = "BPP16"
   /\ op.args[5].hi < 256)
  => \A l \in Loops(bus) : l.body = DataTxn(<<0, op.args[5].lo % 256>>)

\* the green and blue bytes of a colour 0xRRGGBB
Green(color) == color.lo \div 256
Blue(color)  == color.lo % 256

\* C10 (amended): in 16-bit mode, for every colour 0xRRGGBB, every pixel
\* write of draw_solid_rect is the two bytes (0xGG, 0xBB), that is
\* ((color >> 8) & 0xFF, color & 0xFF); the first byte is 0x00 only when
\* the green byte of the colour is 0.
C10_GreenThenBlue ==
  (/\ Called("draw_solid_rect") /\ bpp = "BPP16"
   /\ op.args[5].hi < 256)
  => \A l \in Loops(bus) :
       /\ l.body = DataTxn(<<Green(op.args[5]), Blue(op.args[5])>>)
       /\ l.body[3].bytes[1] = 0 <=> Green(op.args[5]) = 0

C10_Witness ==
  /\ Called("draw_solid_rect") /\ bpp = "BPP16"
  /\ op.args[5] = Color(18, 13398)
  /\ \E l \in Loops(bus) : l.body = DataTxn(<<52, 86>>)

\* the iterations of the character loop of the draw_text in progress that
\* ran to their end: the next entry of `cursor` is the state they left
Handled == 1..(Len(cursor) - 1)

\* C11: draw_text makes no rasterizer call for character code 0x0A; each
\* occurrence sets the horizontal cursor to the x passed to draw_text and
\* advances the vertical cursor by exactly 8 * pixel_height, and changes
\* nothing else (no block requested, so nothing on the bus); the loop then
\* goes on with the next character.
C11_NewlineMovesCursorOnly ==
  Called("draw_text") =>
    /\ \A i \in Handled :
         cursor[i].c = 10 =>
           /\ cursor[i + 1].n = cursor[i].n
           /\ cursor[i + 1].x = op.args[1]
           /\ cursor[i + 1].y = cursor[i].y + (8 * text.pixel_height)
    /\ \A i \in DOMAIN cursor :
         i <= Len(op.args[3]) => cursor[i].c = op.args[3][i]
    /\ (\A i \in DOMAIN op.args[3] : op.args[3][i] = 10) => (blocks = <<>> /\ bus = <<>>)

\* the second of two consecutive newlines, after a glyph moved the cursor
C11_Witness ==
  /\ Called("draw_text") /\ bpp = "BPP16" /\ text.pixel_height = 2
  /\ \E i \in Handled :
       /\ i > 1 /\ cursor[i].c = 10 /\ cursor[i - 1].c = 10
       /\ cursor[i - 1].x # op.args[1]
       /\ cursor[i].x = op.args[1]
       /\ cursor[i + 1].y = op.args[2] + 32
       /\ cursor[i].n > 0

\* bit c (7 = leftmost) of glyph row r (0 = top) of character ch
GlyphBit(ch, r, c) == (FONT[ch][r + 1] \div pow2(c)) % 2 = 1

\* The blocks the claim lists for one glyph at origin (gx, gy) with scale
\* (sx, sy), from cell k on; cell k is row k \div 8, bit column 7 - k % 8,
\* so the cells are in row order, most significant bit first.
RECURSIVE GlyphBlocks(_, _, _, _, _, _)
GlyphBlocks(ch, gx, gy, sx, sy, k) ==
  IF k = 64 THEN <<>>
  ELSE (IF GlyphBit(ch, k \div 8, 7 - (k % 8))
        THEN <<(<<gx + ((k % 8) * sx), gy + ((k \div 8) * sy), sx, sy,
                  text.foreground_color>>)>>
        ELSE IF text.background_color # None
        THEN <<(<<gx + ((k % 8) * sx), gy + ((k \div 8) * sy), sx, sy,
                  text.background_color[1]>>)>>
        ELSE <<>>)
       \o GlyphBlocks(ch, gx, gy, sx, sy, k + 1)

\* C12: for every non-newline character draw_text draws at glyph origin
\* (gx, gy) with scale (sx, sy), the rasterizer calls it makes are exactly:
\* row by row from the top, most significant bit first, one sx by sy block
\* in the foreground colour at (gx + (7-c)*sx, gy + r*sy) for a set bit,
\* one same-size block in the background colour there for a clear bit when
\* a background is configured, and nothing for a clear bit when it is None.
C12_GlyphBlocks ==
  Called("draw_text") =>
    \A i \in Handled :
      cursor[i].c # 10 =>
        SubSeq(blocks, cursor[i].n + 1, cursor[i + 1].n)
          = GlyphBlocks(cursor[i].c, cursor[i].x, cursor[i].y,
                        text.pixel_width, text.pixel_height, 0)

\* drawText(5, 5, "A") with scale (2, 2) and no background: one 2 x 2 block
\* per set bit of 'A' and none for the clear bits
C12_Witness ==
  /\ Called("draw_text") /\ op.args = <<5, 5, <<65>>>>
  /\ bpp = "BPP16" /\ ~panicked
  /\ text.pixel_width = 2 /\ text.pixel_height = 2 /\ text.background_color = None
  /\ Len(blocks) = 28
  /\ blocks[1] = <<11, 5, 2, 2, text.foreground_color>>
  /\ blocks[28] = <<17, 17, 2, 2, text.foreground_color>>
  /\ Len(cursor) = 2

\* a glyph with a background configured: one block per cell, in both colours
C12_WitnessBackground ==
  /\ Called("draw_text") /\ op.args[3] = <<65>>
  /\ text.background_color # None /\ text.pixel_width = 2
  /\ Len(blocks) = 64
  /\ blocks[1][5] = text.background_color[1]
  /\ blocks[4][5] = text.foreground_color

\* the claimed table: 0x53, 0x55, 0x57, 0x63, 0x55
ClaimedModeByte(m) ==
  CASE m = "BPP12"   -> 83
    [] m = "BPP16"   -> 85
    [] m = "BPP16M"  -> 87
    [] m = "BPP18"   -> 99
    [] m = "UNKNOWN" -> 85

\* C13: set_bpp(mode) emits exactly the COLMOD command followed by one data
\* write of the single byte of the table: 12-bit 0x53, 16-bit 0x55,
\* 16-bit-truncated 0x57, 18-bit 0x63 (262K interface with the 12-bit depth
\* bits), sentinel 0x55; and it stores the mode.
C13_ColorModeTable ==
  Called("set_bpp") =>
    /\ bus = CmdTxn(COLMOD) \o DataTxn(<<ClaimedModeByte(op.args[1])>>)
    /\ bpp = op.args[1]
    /\ ~panicked

C13_Witness ==
  /\ Called("set_bpp") /\ op.args[1] = "BPP18"
  /\ bus = CmdTxn(58) \o DataTxn(<<99>>)

\* the writes of the operation in progress that returned an error
FailedWrites == {i \in DOMAIN bus : bus[i].k = "spi_err"}

\* C14: when the SPI write inside send_command or send_data returns an
\* error the driver aborts there: the failed write is the last event of the
\* operation in progress (chip-select is not even released, the rest of the
\* frame is not sent, the write is not tried again), it is the only failed
\* write, and the aborted program takes no further step.
C14_FailedTransferAborts ==
  /\ [](/\ \A b \in Streams(bus) : \A i \in DOMAIN b :
             b[i].k = "spi_err" => (b = bus /\ i = Len(bus))
        /\ FailedWrites # {} => (panicked /\ pc = "called")
        /\ Cardinality(FailedWrites) <= 1)
  /\ [][~panicked]_vars

\* a fill whose pixel loop was cut short by a failed data write
C14_Witness ==
  /\ Called("fill") /\ panicked
  /\ Len(bus) > 1
  /\ bus[Len(bus)] = SpiErrEv("data", Packed(bpp, op.args[1]))
  /\ \E i \in DOMAIN bus : bus[i].k = "loop" /\ bus[i].n > 1 /\ bus[i].n < width * height

\* the bus of programming one axis: the command and its four parameter
\* bytes when the range is valid for the dimension, nothing when it is not
AxisEvents(code, start, end, dimension) ==
  IF start <= end /\ end < dimension
  THEN CmdTxn(code) \o DataTxn(BE16(start) \o BE16(end))
  ELSE <<>>

\* the positions of the memory-write commands of b
MemoryWrites(b) == {i \in DOMAIN b : IsCmd(b[i], RAMWR)}

\* C15: set_window(x0, y0, x1, y1) puts on the bus the column programming
\* if (x0, x1) is valid, then the row programming if (y0, y1) is valid,
\* then always exactly one RAMWR, whose transaction ends the operation:
\* a rejected axis sends nothing, so the controller keeps the range it
\* was last given.  In draw_solid_rect and fill the pixel loop follows that
\* RAMWR directly, whether or not the axes were accepted.
C15_MemoryWriteAlwaysIssued ==
  /\ Called("set_window") =>
       /\ ~panicked
       /\ bus = AxisEvents(CASET, op.args[1], op.args[3], width)
                \o AxisEvents(RASET, op.args[2], op.args[4], height)
                \o CmdTxn(RAMWR)
       /\ Cardinality(MemoryWrites(bus)) = 1
  /\ (pc = "called" /\ op.name \in {"draw_solid_rect", "fill"}) =>
       \A i \in DOMAIN bus :
         bus[i].k = "loop" =>
           /\ i = Len(bus) /\ i > 4
           /\ SubSeq(bus, i - 4, i - 1) = CmdTxn(RAMWR)
           /\ MemoryWrites(bus) = {i - 2}

\* the column range rejected, the row range accepted, RAMWR sent
C15_Witness ==
  /\ Called("set_window") /\ width = 240 /\ op.args = <<0, 0, 320, 239>>
  /\ bus = CmdTxn(RASET) \o DataTxn(<<0, 0, 0, 239>>) \o CmdTxn(RAMWR)

\* the clamping as the claim states it, in unbounded integers
ClaimedX(x) == IF x >= width THEN width - 1 ELSE x
ClaimedY(y) == IF y >= height THEN height - 1 ELSE y
ClaimedW(x, w) == IF ClaimedX(x) + w >= width THEN width - ClaimedX(x) ELSE w
ClaimedH(y, h) == IF ClaimedY(y) + h >= height THEN height - ClaimedY(y) ELSE h

\* C16 (as claimed): for every (x, y, w, h) and a non-sentinel mode,
\* draw_solid_rect programs the window (x', y', x'+w'-1, y'+h'-1) of the
\* clamped rectangle, and the window is never rejected.
\* (The window passed to set_window is read from the CASET and RASET
\* parameters on the bus; a rejected axis leaves none.)
C16_ClampedWindow ==
  (Called("draw_solid_rect") /\ bpp # "UNKNOWN") =>
    /\ ~panicked
    /\ Programmed(bus, CASET) =
         {<<ClaimedX(op.args[1]),
            ClaimedX(op.args[1]) + ClaimedW(op.args[1], op.args[3]) - 1>>}
    /\ Programmed(bus, RASET) =
         {<<ClaimedY(op.args[2]),
            ClaimedY(op.args[2]) + ClaimedH(op.args[2], op.args[4]) - 1>>}

\* the number of data transactions of the pixel loops of b
PixelWrites(b) ==
  IF \E i \in DOMAIN b : b[i].k = "loop"
  THEN (CHOOSE l \in Loops(b) : TRUE).n
  ELSE 0

\* C17 (as claimed): after RAMWR, draw_solid_rect (and so fill) emits
\* exactly w' * h' data transactions, w' and h' being the clamped
\* dimensions, for every surface size and every rectangle: the pixel count
\* never overflows, including a whole-surface fill with width * height
\* above 65535.
\* (Stated where the clamping itself is free of overflow, so that w' and h'
\* are defined.)
C17_PixelCountExact ==
  /\ (Called("fill") /\ bpp # "UNKNOWN" /\ width >= 1 /\ height >= 1)
     => (/\ ~panicked
         /\ Cardinality(Loops(bus)) = 1
         /\ PixelWrites(bus) = width * height)
  /\ (/\ Called("draw_solid_rect") /\ bpp # "UNKNOWN"
      /\ ~clamp([width |-> width, height |-> height], op.args[1], op.args[2],
                op.args[3], op.args[4]).ovf)
     => (/\ ~panicked
         /\ Cardinality(Loops(bus)) <= 1
         /\ PixelWrites(bus) =
              clamp([width |-> width, height |-> height], op.args[1], op.args[2],
                    op.args[3], op.args[4]).width
              * clamp([width |-> width, height |-> height], op.args[1], op.args[2],
                      op.args[3], op.args[4]).height)

\* the dimension set_columns / set_rows validates against
Dimension(name) == IF name = "set_columns" THEN width ELSE height
AxisCommand(name) == IF name = "set_columns" THEN CASET ELSE RASET

\* C18: when set_columns or set_rows accepts (start, end) it sends its
\* command and one data write of four bytes b0..b3, each a byte, with
\* (b0*256 + b1, b2*256 + b3) = (start, end) and start <= end < dimension;
\* every valid pair is accepted.
C18_RangeBytesRoundTrip ==
  (pc = "called" /\ op.name \in {"set_columns", "set_rows"}) =>
    /\ (op.args[1] <= op.args[2] /\ op.args[2] < Dimension(op.name)) => bus # <<>>
    /\ bus # <<>> =>
         /\ Len(bus) = 8
         /\ SubSeq(bus, 1, 4) = CmdTxn(AxisCommand(op.name))
         /\ IsData(bus[7]) /\ Len(bus[7].bytes) = 4
         /\ bus = CmdTxn(AxisCommand(op.name)) \o DataTxn(bus[7].bytes)
         /\ \A i \in 1..4 : bus[7].bytes[i] \in 0..255
         /\ (bus[7].bytes[1] * 256) + bus[7].bytes[2] = op.args[1]
         /\ (bus[7].bytes[3] * 256) + bus[7].bytes[4] = op.args[2]
         /\ op.args[1] <= op.args[2] /\ op.args[2] < Dimension(op.name)

\* rows 300..319 of a 320-row surface: both high bytes are 1
C18_Witness ==
  /\ Called("set_rows") /\ op.args = <<300, 319>>
  /\ Len(bus) = 8 /\ bus[7].bytes = <<1, 44, 1, 63>>

\* the newlines among the first i - 1 characters of chars, and the position
\* of the last of them (0 if none)
NewlinesBefore(chars, i) == {j \in 1..(i - 1) : chars[j] = 10}
LastNewlineBefore(chars, i) ==
  IF NewlinesBefore(chars, i) = {} THEN 0
  ELSE CHOOSE j \in NewlinesBefore(chars, i) :
         \A l \in NewlinesBefore(chars, i) : l <= j

\* C19: within one draw_text(x, y, text), the glyph origin of a non-newline
\* character preceded by n newlines that is the k-th character (from 0)
\* since the last newline (or the start) is (x + k*8*pixel_width,
\* y + n*8*pixel_height); after the glyph's 8 rows the cursor is one
\* character width to the right, on the line's top row.
C19_GlyphOrigin ==
  Called("draw_text") =>
    \A i \in DOMAIN cursor :
      (i <= Len(op.args[3]) /\ cursor[i].c # 10) =>
        /\ cursor[i].x = op.args[1]
             + ((i - 1 - LastNewlineBefore(op.args[3], i)) * 8 * text.pixel_width)
        /\ cursor[i].y = op.args[2]
             + (Cardinality(NewlinesBefore(op.args[3], i)) * 8 * text.pixel_height)
        /\ i \in Handled =>
             /\ cursor[i + 1].x = cursor[i].x + (8 * text.pixel_width)
             /\ cursor[i + 1].y = cursor[i].y

\* "A0\n\n#A" at (5, 5) with scale (2, 2): the last 'A' has n = 2, k = 1
C19_Witness ==
  /\ Called("draw_text") /\ op.args = <<5, 5, <<65, 48, 10, 10, 35, 65>>>>
  /\ text.pixel_width = 2 /\ text.pixel_height = 2 /\ bpp = "BPP16"
  /\ Len(cursor) = 7
  /\ cursor[2].x = 21 /\ cursor[2].y = 5
  /\ cursor[6].c = 65 /\ cursor[6].x = 21 /\ cursor[6].y = 37
  /\ cursor[7].x = 37 /\ cursor[7].y = 37

\* C20 (as claimed): in every state reachable through the public
\* operations both text pixel-scale multipliers are at least 1, and every
\* block draw_text requests has width >= 1 and height >= 1.
C20_ScalesAtLeastOne ==
  /\ text.pixel_width >= 1
  /\ text.pixel_height >= 1
  /\ \A i \in DOMAIN blocks : blocks[i][3] >= 1 /\ blocks[i][4] >= 1

\* the clamped rectangle of the draw_solid_rect in progress
Clamped ==
  clamp([width |-> width, height |-> height], op.args[1], op.args[2],
        op.args[3], op.args[4])

\* the events of b after its memory-write transaction
AfterMemoryWrite(b) ==
  IF MemoryWrites(b) = {} THEN <<>>
  ELSE SubSeq(b, (CHOOSE i \in MemoryWrites(b) : TRUE) + 2, Len(b))

\* C21: in 12-bit mode draw_solid_rect still programs the window (each
\* axis set_columns / set_rows accepts) and issues one RAMWR, and then
\* transfers no pixel byte: what follows RAMWR is nothing but data
\* transactions with an empty payload.
C21_TwelveBitNoPixelBytes ==
  (Called("draw_solid_rect") /\ bpp = "BPP12") =>
    /\ \A l \in Loops(bus) : l.body = DataTxn(<<>>)
    /\ \A i \in DOMAIN AfterMemoryWrite(bus) : AfterMemoryWrite(bus)[i].k = "loop"
    /\ ~panicked =>
         /\ Cardinality(MemoryWrites(bus)) = 1
         /\ \E tail \in {<<>>} \cup {<<l>> : l \in Loops(bus)} :
              bus = AxisEvents(CASET, Clamped.x, Clamped.end_x, width)
                    \o AxisEvents(RASET, Clamped.y, Clamped.end_y, height)
                    \o CmdTxn(RAMWR) \o tail

C21_Witness ==
  /\ Called("draw_solid_rect") /\ bpp = "BPP12" /\ ~panicked
  /\ op.args[5] = Color(18, 13398)
  /\ Programmed(bus, CASET) # {} /\ Programmed(bus, RASET) # {}
  /\ \E l \in Loops(bus) : l.n > 1 /\ l.body = DataTxn(<<>>)

\* C22 (as claimed): for every (x, y, w, h) and a non-sentinel mode, when
\* draw_solid_rect writes pixels it has programmed a window, and the
\* window lies inside the requested rectangle [x, x+w) x [y, y+h); a
\* rectangle off the surface (x >= width or y >= height) or with w = 0 or
\* h = 0 receives no pixel write.
C22_NoWriteOutsideRequest ==
  (Called("draw_solid_rect") /\ bpp # "UNKNOWN") =>
    /\ Loops(bus) # {} =>
         /\ Programmed(bus, CASET) # {} /\ Programmed(bus, RASET) # {}
         /\ \A c \in Programmed(bus, CASET) :
              op.args[1] <= c[1] /\ c[2] < op.args[1] + op.args[3]
         /\ \A r \in Programmed(bus, RASET) :
              op.args[2] <= r[1] /\ r[2] < op.args[2] + op.args[4]
    /\ (\/ op.args[1] >= width \/ op.args[2] >= height
        \/ op.args[3] = 0 \/ op.args[4] = 0) => Loops(bus) = {}

\* C24: after any sequence of Joystick::update calls, for every button:
\* old is the value current had before the last update; at most one of
\* just_pressed, just_released and is_hold is true; is_active holds exactly
\* when just_pressed or is_hold does; just_pressed (just_released) is true
\* exactly when the pin read inactive (active) at the previous update and
\* active (inactive) at the last one, no update counting as inactive.
C24_ButtonEdges ==
  /\ [](joystick # NotYet =>
         \A b \in DOMAIN JoystickButton :
           /\ ~(just_pressed(joystick, JoystickButton[b])
                /\ just_released(joystick, JoystickButton[b]))
           /\ ~(just_pressed(joystick, JoystickButton[b])
                /\ is_hold(joystick, JoystickButton[b]))
           /\ ~(just_released(joystick, JoystickButton[b])
                /\ is_hold(joystick, JoystickButton[b]))
           /\ is_active(joystick, JoystickButton[b])
                <=> (just_pressed(joystick, JoystickButton[b])
                     \/ is_hold(joystick, JoystickButton[b]))
           /\ just_pressed(joystick, JoystickButton[b])
                <=> (b \notin joystick.low_before /\ b \in joystick.low)
           /\ just_released(joystick, JoystickButton[b])
                <=> (b \in joystick.low_before /\ b \notin joystick.low))
  /\ [][(joystick # NotYet /\ joystick' # joystick)
        => joystick'.states.old = joystick.states.current]_vars

\* B was pressed at the previous update and is held, A has just been
\* pressed, and before that update another pair was down
C24_Witness ==
  /\ joystick # NotYet
  /\ joystick.low_before = {"B", "CTRL"} /\ joystick.low = {"A", "B"}
  /\ joystick.states.old = 258 /\ joystick.states.current = 3
  /\ just_pressed(joystick, 1) /\ is_hold(joystick, 2) /\ just_released(joystick, 256)

\* the Display methods the iteration just run has called, in order
LoopCalls == IF Called("loop") THEN op.args[1] ELSE <<>>

\* the arguments of the draw_solid_rect call of the iteration just run
RectCalls == {LoopCalls[i].args : i \in {j \in DOMAIN LoopCalls :
                                          LoopCalls[j].name = "draw_solid_rect"}}

\* the bus events of that draw_solid_rect call
RectEvents == SubSeq(bus, op.args[2] + 1, Len(bus))

\* x + w <= width - 1 and y + h <= height - 1 at the head of every iteration
RectOnPanel ==
  main # NotYet => /\ main.x + main.w <= width - 1
                   /\ main.y + main.h <= height - 1

\* C23 (as claimed): in the demo loop x + w <= width - 1 and
\* y + h <= height - 1 always hold, and every draw_solid_rect(x, y, w, h, ..)
\* the loop calls computes x + w - 1 and y + h - 1 without u16 underflow and
\* programs a column range and a row range that set_columns and set_rows
\* accept.
C23_LoopRectWindowAccepted ==
  /\ RectOnPanel
  /\ \A r \in RectCalls :
       /\ r[1] + r[3] >= 1
       /\ r[2] + r[4] >= 1
       /\ ~panicked
       /\ \E c \in Programmed(RectEvents, CASET) : c[1] <= c[2] /\ c[2] < width
       /\ \E c \in Programmed(RectEvents, RASET) : c[1] <= c[2] /\ c[2] < height

\* the loop draws a rectangle of at least one pixel and its window is accepted
C23_DrawnRect ==
  \E r \in RectCalls :
    /\ r[3] >= 1 /\ r[4] >= 1 /\ r[1] >= 1
    /\ ~panicked
    /\ <<r[1], r[1] + r[3] - 1>> \in Programmed(RectEvents, CASET)
    /\ <<r[2], r[2] + r[4] - 1>> \in Programmed(RectEvents, RASET)

\* the indices i of the PHOTOS[i] the iteration just run has sent
PhotosSent == {LoopCalls[i].args[1] : i \in {j \in DOMAIN LoopCalls :
                                              LoopCalls[j].name = "send_photo"}}

\* C25: in the demo loop, for a photo table of N >= 5 entries and every
\* sequence of button snapshots, every PHOTOS[i] that is sent has
\* 0 <= i < N (a release sends PHOTOS[photo] with photo >= 0, a press having
\* come before); photo is never the hidden index 4, in particular after the
\* press branch; and the hidden photo is sent only by the hold branch with
\* the hold counter above its threshold.
C25_PhotoIndexInTable ==
  main # NotYet =>
    /\ \A i \in PhotosSent : 0 <= i /\ i < main.photos_len
    /\ main.photo # hidden_photo_index
    /\ main.photo >= 0 - 1 /\ main.photo < main.photos_len
    /\ Called("loop") =>
         /\ just_pressed(joystick, JoystickButton.CTRL)
              => PhotosSent = {main.photo}
         /\ just_released(joystick, JoystickButton.CTRL)
              => (main.photo >= 0 /\ PhotosSent = {main.photo})
         /\ hidden_photo_index \in PhotosSent
              => /\ is_hold(joystick, JoystickButton.CTRL)
                 /\ main.ctrl_hold_counter > ctrl_hold_counter_threshold

\* a press moves photo from 3 past the hidden index: to 5 in a table of 6
C25_Witness ==
  /\ Called("loop")
  /\ just_pressed(joystick, JoystickButton.CTRL)
  /\ main.photos_len = 6 /\ main.photo = 5
  /\ PhotosSent = {5}

\* CTRL held beyond the threshold after four presses: the hidden photo is sent
C25_WitnessHidden ==
  /\ Called("loop")
  /\ is_hold(joystick, JoystickButton.CTRL)
  /\ main.ctrl_hold_counter > ctrl_hold_counter_threshold
  /\ main.photos_len = 5 /\ main.photo = 0
  /\ PhotosSent = {hidden_photo_index}

\* CTRL released after the hold: the photo shown before it is sent again
C25_WitnessRelease ==
  /\ Called("loop")
  /\ just_released(joystick, JoystickButton.CTRL)
  /\ main.ctrl_hold_counter = 0
  /\ main.photo = 3 /\ PhotosSent = {3}

====
